---- MODULE Spec2Model ----
(***************************************************************************)
(* Model of sockeye/train.py: the training CLI's main(), run by two        *)
(* processes against one output folder and one machine's GPUs.             *)
(*                                                                         *)
(* A RunRequest (vars(args)) is a function from argument names to values.  *)
(* A file is a sequence of length <= 1: <<>> is "no such file", <<c>> is a *)
(* file with content c.  The same encoding is used for a process's local   *)
(* variables that are not bound yet.                                       *)
(***************************************************************************)
EXTENDS Integers, Sequences, FiniteSets, TLC

\* ------------------------------------------------------------------ bounds
MaxNumWords == 2
MaxDevice == 1
MaxLayers == 4

Procs == {"a", "b"}
Devices == 0..MaxDevice

\* --------------------------------------------------------------- constants
BLEU == "bleu"
ARGS_MAY_DIFFER == {"overwrite_output", "quiet", "keep_last_params"}
LockDirs == {"/tmp", "/var/lock"}

\* ---------------------------------------------------------- RunRequests
\* The request every other request of the main specification is a variant of.
BaseArgs ==
  [num_words |-> 1, quiet |-> FALSE, overwrite_output |-> FALSE,
   device_ids |-> <<0>>, use_cpu |-> FALSE, disable_device_locking |-> FALSE,
   lock_dir |-> "/tmp",
   use_fused_rnn |-> FALSE, rnn_residual_connections |-> FALSE,
   rnn_num_layers |-> 1, optimized_metric |-> "perplexity",
   metrics |-> <<"perplexity">>]

With(r, k, v) == [r EXCEPT ![k] = v]

\* Device-id lists of one and of two devices: the first device, the last
\* one, and both.
DeviceIdLists == {<<0>>, <<MaxDevice>>, <<0, MaxDevice>>}

\* Requests that fail the cross-field validation of main(), one per check,
\* and one that asks for overwrite as well.
InvalidRequests ==
  {With(With(BaseArgs, "use_fused_rnn", TRUE), "use_cpu", TRUE),
   With(With(BaseArgs, "rnn_residual_connections", TRUE), "rnn_num_layers", 2),
   With(BaseArgs, "optimized_metric", "accuracy"),
   With(With(BaseArgs, "optimized_metric", "accuracy"), "overwrite_output", TRUE)}

\* The requests submitted under Spec: they vary what the output-folder check
\* looks at.
ResumeRequests ==
  {With(BaseArgs, "num_words", n) : n \in 1..MaxNumWords}
  \cup {With(BaseArgs, "quiet", TRUE), With(BaseArgs, "overwrite_output", TRUE)}
  \cup {With(BaseArgs, "device_ids", <<d>>) : d \in {0, MaxDevice}}
  \cup InvalidRequests

\* The requests submitted under SpecNoOverlap: those of Spec and one that
\* asks for two devices.
SnapshotRequests ==
  ResumeRequests \cup {With(BaseArgs, "device_ids", <<0, MaxDevice>>)}

\* The requests submitted under SpecDevices: they vary what the device
\* context is built from.
DeviceRequests ==
  {With(BaseArgs, "device_ids", l) : l \in DeviceIdLists}
  \cup {With(BaseArgs, "disable_device_locking", TRUE),
        With(BaseArgs, "use_cpu", TRUE),
        With(BaseArgs, "lock_dir", "/var/lock"),
        With(BaseArgs, "overwrite_output", TRUE)}

\* The dicts of SpecDecide, for vars(args) and for the content of args.json:
\* every combination of the fields the comparison treats differently, with
\* two fields (one neutral, one not) that only some versions of the command
\* line define.
OptionalFields ==
  {<<>>, [keep_last_params |-> 1], [weight_tying |-> TRUE],
   [keep_last_params |-> 1, weight_tying |-> TRUE]}

DecideRequests ==
  {[BaseArgs EXCEPT !.num_words = n, !.quiet = q, !.overwrite_output = o,
                    !.device_ids = l] @@ opt :
     n \in 1..MaxNumWords, q \in BOOLEAN, o \in BOOLEAN, l \in DeviceIdLists,
     opt \in OptionalFields}

\* The requests of SpecValidate: every combination of the fields the
\* check_condition calls of main() read.
ValidateRequests ==
  {[BaseArgs EXCEPT !.use_fused_rnn = f, !.use_cpu = c,
                    !.rnn_residual_connections = res, !.rnn_num_layers = n,
                    !.optimized_metric = m] :
     f \in BOOLEAN, c \in BOOLEAN, res \in BOOLEAN, n \in 1..MaxLayers,
     m \in {"perplexity", "accuracy", BLEU}}

\* ------------------------------------------------------------ pure helpers
\* ValidArgs with the depth test of line 89 one layer lower.
ValidArgs_TwoLayers(a) ==
  /\ (a.use_fused_rnn => ~a.use_cpu)
  /\ (a.rnn_residual_connections => a.rnn_num_layers > 1)
  /\ (a.optimized_metric = BLEU
        \/ \E i \in 1..Len(a.metrics) : a.metrics[i] = a.optimized_metric)

\* check_condition calls of main(), lines 85-92.
ValidArgs(a) ==
  /\ (a.use_fused_rnn => ~a.use_cpu)
  /\ (a.rnn_residual_connections => a.rnn_num_layers > 2)
  /\ (a.optimized_metric = BLEU
        \/ \E i \in 1..Len(a.metrics) : a.metrics[i] = a.optimized_metric)

\* json.dump(vars(args), fp): a JSON object with the same keys; the values
\* of a RunRequest (booleans, integers, strings, lists of these) are written
\* as they are.
JsonDump(d) == [k \in DOMAIN d |-> d[k]]

\* json.load(fp): the object read back as a dict.
JsonLoad(j) == [k \in DOMAIN j |-> j[k]]

\* The content of a file opened with mode "w" and not written yet.
EmptyFile == [k \in {} |-> TRUE]

\* json.load(fp) returns: the text is a JSON document (vars(args) is never
\* empty, and an empty file is no JSON).
JsonValid(j) == DOMAIN j # {}

\* _dict_difference with the membership test of line 67 the wrong way round.
_dict_difference_KeyTest(dict1, dict2) ==
  {k \in DOMAIN dict1 : k \in DOMAIN dict2 \/ dict2[k] # dict1[k]}

\* Lines 64-69.
_dict_difference(dict1, dict2) ==
  {k \in DOMAIN dict1 : k \notin DOMAIN dict2 \/ dict2[k] # dict1[k]}

\* ArgDiffs with the difference taken from vars(args) to the old dict only.
ArgDiffs_OneWay(cur, old_args) ==
  LET d1 == _dict_difference(cur, old_args) \ ARGS_MAY_DIFFER
  IN  IF "device_ids" \in d1 /\ Len(old_args["device_ids"]) = Len(cur["device_ids"])
      THEN d1 \ {"device_ids"}
      ELSE d1

\* ArgDiffs without the device_ids case of lines 111-113.
ArgDiffs_NoDeviceCase(cur, old_args) ==
  (_dict_difference(cur, old_args) \cup _dict_difference(old_args, cur))
    \ ARGS_MAY_DIFFER

\* ArgDiffs with ARGS_MAY_DIFFER removed from one direction only.
ArgDiffs_NeutralOneWay(cur, old_args) ==
  LET d1 == (_dict_difference(cur, old_args) \ ARGS_MAY_DIFFER)
              \cup _dict_difference(old_args, cur)
  IN  IF "device_ids" \in d1 /\ Len(old_args["device_ids"]) = Len(cur["device_ids"])
      THEN d1 \ {"device_ids"}
      ELSE d1

\* ArgDiffs without the length test of line 112.
ArgDiffs_AnyDevices(cur, old_args) ==
  ((_dict_difference(cur, old_args) \cup _dict_difference(old_args, cur))
     \ ARGS_MAY_DIFFER) \ {"device_ids"}

\* ArgDiffs without line 110.
ArgDiffs_NoNeutral(cur, old_args) ==
  LET d1 == _dict_difference(cur, old_args) \cup _dict_difference(old_args, cur)
  IN  IF "device_ids" \in d1 /\ Len(old_args["device_ids"]) = Len(cur["device_ids"])
      THEN d1 \ {"device_ids"}
      ELSE d1

\* arg_diffs of main(), lines 108-113.
ArgDiffs(cur, old_args) ==
  LET sym == _dict_difference(cur, old_args) \cup _dict_difference(old_args, cur)
      d1 == sym \ ARGS_MAY_DIFFER
  IN  IF "device_ids" \in d1 /\ Len(old_args["device_ids"]) = Len(cur["device_ids"])
      THEN d1 \ {"device_ids"}
      ELSE d1

\* ------------------------------------------------------------------- state
VARIABLES
  pc,         \* pc[p]: the step of main() process p is about to run
  args,       \* args[p]: <<vars(args)>> of the running invocation
  arg_diffs,  \* arg_diffs[p]: the set reported on a mismatch
  decision,   \* decision[p]: outcome of the output-folder check
  context,    \* context[p]: GPU ids the invocation runs (or ran) on
  did,        \* did[p]: pipeline steps the invocation has completed, in order
  status,     \* status[p]: exit status of the invocation
  disk,       \* the output folder
  locks,      \* locks[dir][d]: holder of the lock file of GPU d in lock dir
  fresh_args, \* history: <<snapshot written by the latest fresh start>>
  requests    \* the RunRequests the command line may carry

vars == <<pc, args, arg_diffs, decision, context, did, status, disk,
          locks, fresh_args, requests>>

EmptyDisk ==
  [folder |-> FALSE, args_json |-> <<>>, log |-> FALSE, vocab |-> FALSE,
   training_state |-> FALSE, scheduler_state |-> FALSE, params |-> FALSE]

InitState ==
  /\ pc = [p \in Procs |-> "idle"]
  /\ args = [p \in Procs |-> <<>>]
  /\ arg_diffs = [p \in Procs |-> {}]
  /\ decision = [p \in Procs |-> "none"]
  /\ context = [p \in Procs |-> {}]
  /\ did = [p \in Procs |-> <<>>]
  /\ status = [p \in Procs |-> "none"]
  /\ disk = EmptyDisk
  /\ locks = [l \in LockDirs |-> [d \in Devices |-> "free"]]
  /\ fresh_args = <<>>

Init == InitState /\ requests = ResumeRequests

InitDevices == InitState /\ requests = DeviceRequests

InitNoOverlap == InitState /\ requests = SnapshotRequests

\* A command line meets the output folder an earlier run left: with the log,
\* the vocabularies and an args.json, and with or without the training state.
InitDecide ==
  /\ \E r \in DecideRequests :
       /\ args = [p \in Procs |-> IF p = "a" THEN <<r>> ELSE <<>>]
       /\ requests = {r}
  /\ \E o \in DecideRequests, ts \in BOOLEAN :
       /\ disk = [folder |-> TRUE, args_json |-> <<JsonDump(o)>>, log |-> TRUE,
                  vocab |-> TRUE, training_state |-> ts,
                  scheduler_state |-> ts, params |-> ts]
       /\ fresh_args = <<JsonDump(o)>>
  /\ pc = [p \in Procs |-> IF p = "a" THEN "validate" ELSE "idle"]
  /\ arg_diffs = [p \in Procs |-> {}]
  /\ decision = [p \in Procs |-> "none"]
  /\ context = [p \in Procs |-> {}]
  /\ did = [p \in Procs |-> <<>>]
  /\ status = [p \in Procs |-> "none"]
  /\ locks = [l \in LockDirs |-> [d \in Devices |-> "free"]]

\* One command line, at an absent output folder.
InitValidate ==
  /\ \E r \in ValidateRequests :
       /\ args = [p \in Procs |-> IF p = "a" THEN <<r>> ELSE <<>>]
       /\ requests = {r}
  /\ pc = [p \in Procs |-> IF p = "a" THEN "validate" ELSE "idle"]
  /\ arg_diffs = [p \in Procs |-> {}]
  /\ decision = [p \in Procs |-> "none"]
  /\ context = [p \in Procs |-> {}]
  /\ did = [p \in Procs |-> <<>>]
  /\ status = [p \in Procs |-> "none"]
  /\ disk = EmptyDisk
  /\ locks = [l \in LockDirs |-> [d \in Devices |-> "free"]]
  /\ fresh_args = <<>>

\* Two command lines are started together at an absent output folder.
InitRace ==
  /\ \E r1, r2 \in ResumeRequests :
       /\ args = [p \in Procs |-> IF p = "a" THEN <<r1>> ELSE <<r2>>]
       /\ requests = {r1, r2}
  /\ pc = [p \in Procs |-> "validate"]
  /\ arg_diffs = [p \in Procs |-> {}]
  /\ decision = [p \in Procs |-> "none"]
  /\ context = [p \in Procs |-> {}]
  /\ did = [p \in Procs |-> <<>>]
  /\ status = [p \in Procs |-> "none"]
  /\ disk = EmptyDisk
  /\ locks = [l \in LockDirs |-> [d \in Devices |-> "free"]]
  /\ fresh_args = <<>>

\* ----------------------------------------------------------------- helpers
Range(s) == {s[i] : i \in 1..Len(s)}

Goto(p, l) == pc' = [pc EXCEPT ![p] = l]

\* check_condition fails or a call raises outside the with-block: the
\* exception reaches the top level.
Uncaught(p) ==
  /\ pc' = [pc EXCEPT ![p] = "uncaught"]
  /\ status' = [status EXCEPT ![p] = "error"]

\* An exception inside the with-block: the ExitStack unwinds next.
Raise(p) ==
  /\ pc' = [pc EXCEPT ![p] = "exit_stack"]
  /\ status' = [status EXCEPT ![p] = "error"]

Done(p, step) == did' = [did EXCEPT ![p] = Append(@, step)]

\* The process ends with exit status st.  What stays of it is the status and
\* the devices it reported to run on; its memory is gone.
Terminate(p, st) ==
  /\ pc' = [pc EXCEPT ![p] = "idle"]
  /\ status' = [status EXCEPT ![p] = st]
  /\ args' = [args EXCEPT ![p] = <<>>]
  /\ arg_diffs' = [arg_diffs EXCEPT ![p] = {}]
  /\ decision' = [decision EXCEPT ![p] = "none"]
  /\ did' = [did EXCEPT ![p] = <<>>]
  /\ UNCHANGED context

\* Locks of every lock dir with the entries held by p set free.
ReleasedLocks(p) ==
  [l \in LockDirs |-> [d \in Devices |-> IF locks[l][d] = p THEN "free" ELSE locks[l][d]]]

\* ------------------------------------------------- main(): before the with
\* Lines 72-78: process p is started with command line r.
StartWith(p, r) ==
  /\ pc[p] = "idle"
  /\ args' = [args EXCEPT ![p] = <<r>>]
  /\ pc' = [pc EXCEPT ![p] = "validate"]
  /\ status' = [status EXCEPT ![p] = "none"]
  /\ context' = [context EXCEPT ![p] = {}]
  /\ UNCHANGED <<arg_diffs, decision, did, disk, locks, fresh_args, requests>>

\* A new invocation, at any time.
Start(p) == \E r \in requests : StartWith(p, r)

\* A new invocation, started by a caller who lets an invocation with
\* --overwrite-output run alone on the output folder.
StartNoOverlap(p) ==
  \E r \in requests :
    /\ \A q \in Procs \ {p} :
         pc[q] # "idle" => (~r.overwrite_output /\ ~args[q][1].overwrite_output)
    /\ StartWith(p, r)

\* Validate with failed checks reported but not raised.
Validate_NoRaise(p) ==
  /\ pc[p] = "validate"
  /\ Goto(p, "check_output")
  /\ UNCHANGED <<args, arg_diffs, decision, context, did, status, disk, locks,
                 fresh_args, requests>>

\* Lines 85-92: the three check_condition calls.
Validate(p) ==
  /\ pc[p] = "validate"
  /\ IF ValidArgs(args[p][1])
     THEN Goto(p, "check_output") /\ UNCHANGED status
     ELSE Uncaught(p)
  /\ UNCHANGED <<args, arg_diffs, decision, context, did, disk, locks,
                 fresh_args, requests>>

\* CheckOutputFolder with the training state looked at before the overwrite
\* flag: a folder that holds one is kept.
CheckOutputFolder_ResumeFirst(p) ==
  /\ pc[p] = "check_output"
  /\ IF disk.folder
     THEN IF args[p][1].overwrite_output /\ ~disk.training_state
          THEN Goto(p, "rmtree")
               /\ decision' = [decision EXCEPT ![p] = "FreshStart"]
          ELSE Goto(p, "check_training_state") /\ UNCHANGED decision
     ELSE Goto(p, "makedirs")
          /\ decision' = [decision EXCEPT ![p] = "FreshStart"]
  /\ UNCHANGED <<args, arg_diffs, context, did, status, disk, locks,
                 fresh_args, requests>>

\* CheckOutputFolder with a folder that holds no training state taken over
\* for a fresh start.
CheckOutputFolder_ReusesFolder(p) ==
  /\ pc[p] = "check_output"
  /\ IF disk.folder
     THEN IF args[p][1].overwrite_output
          THEN Goto(p, "rmtree")
               /\ decision' = [decision EXCEPT ![p] = "FreshStart"]
          ELSE IF disk.training_state
          THEN Goto(p, "check_training_state") /\ UNCHANGED decision
          ELSE Goto(p, "setup_logger")
               /\ decision' = [decision EXCEPT ![p] = "FreshStart"]
     ELSE Goto(p, "makedirs")
          /\ decision' = [decision EXCEPT ![p] = "FreshStart"]
  /\ UNCHANGED <<args, arg_diffs, context, did, status, disk, locks,
                 fresh_args, requests>>

\* Lines 100-101 and 124: os.path.exists(output_folder), overwrite_output.
CheckOutputFolder(p) ==
  /\ pc[p] = "check_output"
  /\ IF disk.folder
     THEN IF args[p][1].overwrite_output
          THEN Goto(p, "rmtree")
               /\ decision' = [decision EXCEPT ![p] = "FreshStart"]
          ELSE Goto(p, "check_training_state") /\ UNCHANGED decision
     ELSE Goto(p, "makedirs")
          /\ decision' = [decision EXCEPT ![p] = "FreshStart"]
  /\ UNCHANGED <<args, arg_diffs, context, did, status, disk, locks,
                 fresh_args, requests>>

\* Line 103: shutil.rmtree(output_folder); raises when the folder is gone.
Rmtree(p) ==
  /\ pc[p] = "rmtree"
  /\ IF disk.folder
     THEN /\ disk' = EmptyDisk
          /\ fresh_args' = <<>>
          /\ Goto(p, "makedirs_overwrite")
          /\ UNCHANGED status
     ELSE Uncaught(p) /\ UNCHANGED <<disk, fresh_args>>
  /\ UNCHANGED <<args, arg_diffs, decision, context, did, locks,
                 requests>>

\* os.makedirs(output_folder): raises FileExistsError when it exists.
makedirs(p, next) ==
  IF disk.folder
  THEN Uncaught(p) /\ UNCHANGED disk
  ELSE /\ disk' = [disk EXCEPT !.folder = TRUE]
       /\ Goto(p, next)
       /\ UNCHANGED status

\* Line 104.
MakedirsOverwrite(p) ==
  /\ pc[p] = "makedirs_overwrite"
  /\ makedirs(p, "setup_logger")
  /\ UNCHANGED <<args, arg_diffs, decision, context, did, locks,
                 fresh_args, requests>>

\* Line 125.
Makedirs(p) ==
  /\ pc[p] = "makedirs"
  /\ makedirs(p, "setup_logger")
  /\ UNCHANGED <<args, arg_diffs, decision, context, did, locks,
                 fresh_args, requests>>

\* CheckTrainingState without the refusal: the folder is taken for a run.
CheckTrainingState_NoRefuse(p) ==
  /\ pc[p] = "check_training_state"
  /\ Goto(p, "compare_args")
  /\ UNCHANGED <<args, arg_diffs, decision, status, context, did, disk, locks,
                 fresh_args, requests>>

\* Lines 105 and 121-122: os.path.exists(training_state_dir), else refuse.
CheckTrainingState(p) ==
  /\ pc[p] = "check_training_state"
  /\ IF disk.training_state
     THEN Goto(p, "compare_args") /\ UNCHANGED <<decision, status>>
     ELSE /\ decision' = [decision EXCEPT ![p] = "Refuse"]
          /\ status' = [status EXCEPT ![p] = "fatal"]
          /\ Goto(p, "sys_exit")
  /\ UNCHANGED <<args, arg_diffs, context, did, disk, locks,
                 fresh_args, requests>>

\* CompareArgs with the snapshot of lines 133-134 taken before the comparison.
CompareArgs_SavesFirst(p) ==
  /\ pc[p] = "compare_args"
  /\ IF disk.args_json = <<>> \/ ~JsonValid(disk.args_json[1])
     THEN Uncaught(p) /\ UNCHANGED <<arg_diffs, decision, disk>>
     ELSE LET old_args == JsonLoad(disk.args_json[1])
              diffs == ArgDiffs(args[p][1], old_args)
          IN  /\ arg_diffs' = [arg_diffs EXCEPT ![p] = diffs]
              /\ disk' = [disk EXCEPT !.args_json = <<JsonDump(args[p][1])>>]
              /\ IF diffs = {}
                 THEN /\ decision' = [decision EXCEPT ![p] = "Resume"]
                      /\ Goto(p, "setup_logger")
                      /\ UNCHANGED status
                 ELSE /\ decision' = [decision EXCEPT ![p] = "AbortIncompatible"]
                      /\ status' = [status EXCEPT ![p] = "fatal"]
                      /\ Goto(p, "sys_exit")
  /\ UNCHANGED <<args, context, did, locks, fresh_args, requests>>

\* CompareArgs without the sys.exit(1) of line 120.
CompareArgs_NoExit(p) ==
  /\ pc[p] = "compare_args"
  /\ IF disk.args_json = <<>> \/ ~JsonValid(disk.args_json[1])
     THEN Uncaught(p) /\ UNCHANGED <<arg_diffs, decision>>
     ELSE LET old_args == JsonLoad(disk.args_json[1])
              diffs == ArgDiffs(args[p][1], old_args)
          IN  /\ arg_diffs' = [arg_diffs EXCEPT ![p] = diffs]
              /\ decision' = [decision EXCEPT ![p] =
                                IF diffs = {} THEN "Resume" ELSE "AbortIncompatible"]
              /\ Goto(p, "setup_logger")
              /\ UNCHANGED status
  /\ UNCHANGED <<args, context, did, disk, locks, fresh_args, requests>>

\* Lines 106-119: open(args.json) raises when the file is missing and
\* json.load when it holds no JSON; else the loaded dict is compared with
\* vars(args).
CompareArgs(p) ==
  /\ pc[p] = "compare_args"
  /\ IF disk.args_json = <<>> \/ ~JsonValid(disk.args_json[1])
     THEN Uncaught(p) /\ UNCHANGED <<arg_diffs, decision>>
     ELSE LET old_args == JsonLoad(disk.args_json[1])
              diffs == ArgDiffs(args[p][1], old_args)
          IN  /\ arg_diffs' = [arg_diffs EXCEPT ![p] = diffs]
              /\ IF diffs = {}
                 THEN /\ decision' = [decision EXCEPT ![p] = "Resume"]
                      /\ Goto(p, "setup_logger")
                      /\ UNCHANGED status
                 ELSE /\ decision' = [decision EXCEPT ![p] = "AbortIncompatible"]
                      /\ status' = [status EXCEPT ![p] = "fatal"]
                      /\ Goto(p, "sys_exit")
  /\ UNCHANGED <<args, context, did, disk, locks, fresh_args, requests>>

\* Lines 120 and 123, sys.exit(1), and the end of a process whose exception
\* left main() outside the with-block.
Exit(p) ==
  /\ pc[p] \in {"sys_exit", "uncaught"}
  /\ Terminate(p, status[p])
  /\ UNCHANGED <<disk, locks, fresh_args, requests>>

\* Lines 127-132: the file logger opens <output>/log.
SetupLogger(p) ==
  /\ pc[p] = "setup_logger"
  /\ IF disk.folder
     THEN /\ disk' = [disk EXCEPT !.log = TRUE]
          /\ Goto(p, "write_args")
          /\ UNCHANGED status
     ELSE Uncaught(p) /\ UNCHANGED disk
  /\ UNCHANGED <<args, arg_diffs, decision, context, did, locks,
                 fresh_args, requests>>

\* Lines 133-134: json.dump(vars(args)) into <output>/args.json.
WriteArgs(p) ==
  /\ pc[p] = "write_args"
  /\ IF disk.folder
     THEN /\ disk' = [disk EXCEPT !.args_json = <<JsonDump(args[p][1])>>]
          /\ fresh_args' = IF decision[p] = "FreshStart"
                           THEN <<JsonDump(args[p][1])>> ELSE fresh_args
          /\ Goto(p, "acquire")
          /\ Done(p, "decision")
          /\ UNCHANGED status
     ELSE Uncaught(p) /\ UNCHANGED <<disk, fresh_args, did>>
  /\ UNCHANGED <<args, arg_diffs, decision, context, locks, requests>>

\* ------------------------------------------------- main(): the with-block
\* get_num_gpus(): what nvidia-smi reports, 0 when it finds nothing.
NumGpusReported == {0, MaxDevice + 1}

\* expand_requested_device_ids(device_ids): the requested ids as they are.
expand_requested_device_ids(device_ids) == Range(device_ids)

\* acquire_gpus(device_ids, lock_dir) can be entered: every requested GPU's
\* lock file in lock_dir is free.
CanAcquire(device_ids, lock_dir) ==
  \A d \in Range(device_ids) : locks[lock_dir][d] = "free"

\* The locks after p entered acquire_gpus(device_ids, lock_dir).
acquire_gpus(p, device_ids, lock_dir) ==
  [locks EXCEPT ![lock_dir] =
     [d \in Devices |-> IF d \in Range(device_ids) THEN p ELSE @[d]]]

\* Line 147 with the flag read the wrong way round.
LockingDisabled_Inverted(a) == ~a.disable_device_locking

\* Line 147.
LockingDisabled(a) == a.disable_device_locking

\* Lines 136-152: the device context of the run.
AcquireDevices(p) ==
  /\ pc[p] = "acquire"
  /\ LET a == args[p][1] IN
     IF a.use_cpu
     THEN /\ Goto(p, "vocab") /\ Done(p, "devices")
          /\ UNCHANGED <<context, locks, status>>
     ELSE \E num_gpus \in NumGpusReported :
            IF ~(num_gpus >= 1)
            THEN Raise(p) /\ UNCHANGED <<context, locks, did>>
            ELSE IF LockingDisabled(a)
            THEN /\ context' = [context EXCEPT
                                  ![p] = expand_requested_device_ids(a.device_ids)]
                 /\ Goto(p, "vocab") /\ Done(p, "devices")
                 /\ UNCHANGED <<locks, status>>
            ELSE IF CanAcquire(a.device_ids, a.lock_dir)
            THEN /\ locks' = acquire_gpus(p, a.device_ids, a.lock_dir)
                 /\ context' = [context EXCEPT ![p] = Range(a.device_ids)]
                 /\ Goto(p, "vocab") /\ Done(p, "devices")
                 /\ UNCHANGED status
            ELSE Raise(p) /\ UNCHANGED <<context, locks, did>>
  /\ UNCHANGED <<args, arg_diffs, decision, disk, fresh_args, requests>>

\* Lines 155-169: load the vocabularies of the run, or build and save them.
Vocab(p) ==
  /\ pc[p] = "vocab"
  /\ IF decision[p] = "Resume"
     THEN IF disk.vocab
          THEN Goto(p, "data_iters") /\ Done(p, "vocab")
               /\ UNCHANGED <<status, disk>>
          ELSE Raise(p) /\ UNCHANGED <<did, disk>>
     ELSE \E built \in BOOLEAN :
            IF built /\ disk.folder
            THEN /\ disk' = [disk EXCEPT !.vocab = TRUE]
                 /\ Goto(p, "data_iters") /\ Done(p, "vocab")
                 /\ UNCHANGED status
            ELSE Raise(p) /\ UNCHANGED <<did, disk>>
  /\ UNCHANGED <<args, arg_diffs, decision, context, locks, fresh_args, requests>>

\* DataIters with the scheduler left out of what follows.
DataIters_SkipsScheduler(p) ==
  /\ pc[p] = "data_iters"
  /\ \E readable \in BOOLEAN :
       IF readable
       THEN Goto(p, "model_config") /\ Done(p, "data") /\ UNCHANGED status
       ELSE Raise(p) /\ UNCHANGED did
  /\ UNCHANGED <<args, arg_diffs, decision, context, disk, locks,
                 fresh_args, requests>>

\* Lines 171-192: data_io.get_training_data_iters reads the training data.
DataIters(p) ==
  /\ pc[p] = "data_iters"
  /\ \E readable \in BOOLEAN :
       IF readable
       THEN Goto(p, "lr_scheduler") /\ Done(p, "data") /\ UNCHANGED status
       ELSE Raise(p) /\ UNCHANGED did
  /\ UNCHANGED <<args, arg_diffs, decision, context, disk, locks,
                 fresh_args, requests>>

\* LrScheduler with a new scheduler built when the pickled one is missing.
LrScheduler_FreshFallback(p) ==
  /\ pc[p] = "lr_scheduler"
  /\ Goto(p, "model_config") /\ Done(p, "scheduler") /\ UNCHANGED status
  /\ UNCHANGED <<args, arg_diffs, decision, context, disk, locks,
                 fresh_args, requests>>

\* Lines 194-205: a new scheduler, or the pickled one of the run.
LrScheduler(p) ==
  /\ pc[p] = "lr_scheduler"
  /\ IF decision[p] = "Resume" /\ ~disk.scheduler_state
     THEN Raise(p) /\ UNCHANGED did
     ELSE Goto(p, "model_config") /\ Done(p, "scheduler") /\ UNCHANGED status
  /\ UNCHANGED <<args, arg_diffs, decision, context, disk, locks,
                 fresh_args, requests>>

\* Lines 207-267: the sub-configurations and the frozen ModelConfig.
ModelConfig(p) ==
  /\ pc[p] = "model_config"
  /\ Goto(p, "training_model") /\ Done(p, "config")
  /\ UNCHANGED <<args, arg_diffs, decision, context, status, disk,
                 locks, fresh_args, requests>>

\* Lines 269-284: the TrainingModel, with the saved parameters on resume.
TrainingModel(p) ==
  /\ pc[p] = "training_model"
  /\ IF decision[p] = "Resume" /\ ~disk.params
     THEN Raise(p) /\ UNCHANGED did
     ELSE Goto(p, "fit") /\ Done(p, "model") /\ UNCHANGED status
  /\ UNCHANGED <<args, arg_diffs, decision, context, disk, locks,
                 fresh_args, requests>>

\* Lines 286-323: the optimizer parameters and the call of fit().
Fit(p) ==
  /\ pc[p] = "fit"
  /\ Goto(p, "fit_mkdir") /\ Done(p, "fit")
  /\ UNCHANGED <<args, arg_diffs, decision, context, status, disk,
                 locks, fresh_args, requests>>

\* The training loop creates <output>/training_state at its checkpoint.
FitMakeStateDir(p) ==
  /\ pc[p] = "fit_mkdir"
  /\ IF disk.folder
     THEN /\ disk' = [disk EXCEPT !.training_state = TRUE]
          /\ Goto(p, "fit_save") /\ UNCHANGED status
     ELSE Raise(p) /\ UNCHANGED disk
  /\ UNCHANGED <<args, arg_diffs, decision, context, did, locks,
                 fresh_args, requests>>

\* The training loop saves the scheduler and the parameters there, then
\* returns or raises.
FitSaveState(p) ==
  /\ pc[p] = "fit_save"
  /\ IF disk.training_state
     THEN /\ disk' = [disk EXCEPT !.scheduler_state = TRUE, !.params = TRUE]
          /\ pc' = [pc EXCEPT ![p] = "exit_stack"]
          /\ \E st \in {"ok", "error"} : status' = [status EXCEPT ![p] = st]
     ELSE Raise(p) /\ UNCHANGED disk
  /\ UNCHANGED <<args, arg_diffs, decision, context, did, locks,
                 fresh_args, requests>>

\* ExitStackClose as a release at the end of the block, reached by a normal
\* return only.
ExitStackClose_KeepsLocksOnError(p) ==
  /\ pc[p] = "exit_stack"
  /\ locks' = IF status[p] = "error" THEN locks ELSE ReleasedLocks(p)
  /\ Terminate(p, status[p])
  /\ UNCHANGED <<disk, fresh_args, requests>>

\* Line 136: leaving the with-block closes the ExitStack, which leaves
\* acquire_gpus; then the process ends.
ExitStackClose(p) ==
  /\ pc[p] = "exit_stack"
  /\ locks' = ReleasedLocks(p)
  /\ Terminate(p, status[p])
  /\ UNCHANGED <<disk, fresh_args, requests>>

\* The process is killed from outside; its file locks go with it.
Kill(p) ==
  /\ pc[p] # "idle"
  /\ locks' = ReleasedLocks(p)
  /\ Terminate(p, "killed")
  /\ UNCHANGED <<disk, fresh_args, requests>>

\* The process is killed inside the with-statement of lines 133-134, after
\* open(..., "w") has truncated args.json and before the dumped text is
\* flushed to it.
KillWritingArgs(p) ==
  /\ pc[p] = "write_args"
  /\ disk.folder
  /\ disk' = [disk EXCEPT !.args_json = <<EmptyFile>>]
  /\ locks' = ReleasedLocks(p)
  /\ Terminate(p, "killed")
  /\ UNCHANGED <<fresh_args, requests>>

\* A step of main() in process p, or its kill.
Step(p) ==
  \/ Validate(p)
  \/ CheckOutputFolder(p)
  \/ Rmtree(p)
  \/ MakedirsOverwrite(p)
  \/ Makedirs(p)
  \/ CheckTrainingState(p)
  \/ CompareArgs(p)
  \/ Exit(p)
  \/ SetupLogger(p)
  \/ WriteArgs(p)
  \/ AcquireDevices(p)
  \/ Vocab(p)
  \/ DataIters(p)
  \/ LrScheduler(p)
  \/ ModelConfig(p)
  \/ TrainingModel(p)
  \/ Fit(p)
  \/ FitMakeStateDir(p)
  \/ FitSaveState(p)
  \/ ExitStackClose(p)
  \/ Kill(p)

Next == \E p \in Procs : Start(p) \/ Step(p) \/ KillWritingArgs(p)

NextNoOverlap == \E p \in Procs : StartNoOverlap(p) \/ Step(p)

NextKill == \E p \in Procs : StartNoOverlap(p) \/ Step(p) \/ KillWritingArgs(p)

Spec == Init /\ [][Next]_vars

SpecDevices == InitDevices /\ [][Next]_vars

\* Invocations none of which overlaps an overwrite and none of which is
\* killed inside the write of args.json.
SpecNoOverlap == InitNoOverlap /\ [][NextNoOverlap]_vars

\* The invocations of Spec, none of them overlapping an overwrite.
SpecKill == Init /\ [][NextKill]_vars

\* Two invocations started together, each run once.
NextRace == \E p \in Procs : Step(p) \/ KillWritingArgs(p)

SpecRace == InitRace /\ [][NextRace]_vars

\* The output-folder check of one invocation, up to its decision.
NextDecide ==
  \/ Validate("a")
  \/ CheckOutputFolder("a")
  \/ CheckTrainingState("a")
  \/ CompareArgs("a")

SpecDecide == InitDecide /\ [][NextDecide]_vars

\* The cross-field validation of one invocation, and its exit on a failure.
NextValidate == Validate("a") \/ Exit("a")

SpecValidate == InitValidate /\ [][NextValidate]_vars

\* ------------------------------------------------------------- properties
Proceeds == {"FreshStart", "Resume"}
Fatal == {"Refuse", "AbortIncompatible"}

\* The pcs of the with-block at which acquire_gpus may have been entered.
AfterAcquire ==
  {"vocab", "data_iters", "lr_scheduler", "model_config", "training_model",
   "fit", "fit_mkdir", "fit_save", "exit_stack"}

InWithBlock == AfterAcquire \cup {"acquire"}

Running(p) == pc[p] # "idle"

\* Process p takes a step of main() (it is not killed).
Steps(p) == pc'[p] # pc[p] /\ pc'[p] # "idle"

HoldsLock(p) == \E l \in LockDirs, d \in Devices : locks[l][d] = p

\* The two dicts agree on every field outside F.
OnlyDiffIn(cur, old, F) ==
  \A k \in (DOMAIN cur \cup DOMAIN old) \ F :
    k \in DOMAIN cur /\ k \in DOMAIN old /\ cur[k] = old[k]

\* C1: a step of an invocation that decided Resume leaves the content of
\* args.json as it is.
C1_ResumeLeavesArgsJson ==
  [][\A p \in Procs :
       (decision[p] = "Resume" /\ pc'[p] # pc[p])
         => disk'.args_json = disk.args_json]_vars

\* C2: no two running invocations have been granted the same GPU id.
C2_NoSharedDevice ==
  \A p, q \in Procs :
    (p # q /\ Running(p) /\ Running(q)) => context[p] \cap context[q] = {}

\* Invocation p locks its GPUs: GPU mode, device locking not disabled.
Locking(p) ==
  /\ Running(p)
  /\ ~args[p][1].use_cpu
  /\ ~args[p][1].disable_device_locking

\* C2 as amended: no two running invocations that lock their GPUs in the
\* same lock directory have been granted the same GPU id.
C2_NoSharedLockedDevice ==
  \A p, q \in Procs :
    (p # q /\ Locking(p) /\ Locking(q)
       /\ args[p][1].lock_dir = args[q][1].lock_dir)
      => context[p] \cap context[q] = {}

\* Two invocations locking in the same directory both run on GPUs.
C2_Witness ==
  \E p, q \in Procs :
    /\ p # q /\ Locking(p) /\ Locking(q)
    /\ args[p][1].lock_dir = args[q][1].lock_dir
    /\ context[p] # {} /\ context[q] # {}
    /\ pc[p] \in AfterAcquire /\ pc[q] \in AfterAcquire

\* C3: an invocation holds device locks only inside the with-block, after
\* acquire_gpus was entered; once it has left the pipeline, by a return or
\* by an error, it holds none.
C3_LocksReleasedOnExit ==
  \A p \in Procs : HoldsLock(p) => pc[p] \in AfterAcquire

\* An invocation ended by an error after it ran on locked GPUs, and another
\* invocation has since locked one of them.
C3_Witness ==
  \E p, q \in Procs :
    /\ p # q
    /\ pc[p] = "idle" /\ status[p] = "error" /\ context[p] # {}
    /\ ~HoldsLock(p)
    /\ Locking(q)
    /\ \E d \in context[p] : locks[args[q][1].lock_dir][d] = q

ClaimD(cur, old) ==
  LET differing == {k \in DOMAIN cur \cup DOMAIN old :
                      IF k \in DOMAIN cur /\ k \in DOMAIN old
                      THEN cur[k] # old[k] ELSE TRUE}
      equallyLong == Len(cur.device_ids) = Len(old.device_ids)
  IN  {k \in differing :
         /\ k \notin ARGS_MAY_DIFFER
         /\ ~(k = "device_ids" /\ equallyLong)}

\* The invocation of SpecDecide has decided; cur and old are its dicts.
Decided(p) == decision[p] # "none" /\ args[p] # <<>> /\ disk.args_json # <<>>

\* C5: with the training state present and no overwrite requested, the
\* decision is AbortIncompatible exactly when D is not empty (else Resume),
\* and the set reported is D.
C5_AbortExactlyOnD ==
  \A p \in Procs :
    (Decided(p) /\ disk.training_state /\ ~args[p][1].overwrite_output)
      => LET D == ClaimD(args[p][1], disk.args_json[1])
         IN  /\ decision[p] = (IF D = {} THEN "Resume" ELSE "AbortIncompatible")
             /\ arg_diffs[p] = D

\* Two requests that differ in the vocabulary size only: AbortIncompatible
\* naming that field.
C5_Witness ==
  \E p \in Procs :
    /\ Decided(p) /\ decision[p] = "AbortIncompatible"
    /\ arg_diffs[p] = {"num_words"}
    /\ OnlyDiffIn(args[p][1], disk.args_json[1], {"num_words"})

\* The dicts of p differ in the device-id list and in nothing else.
OnlyDeviceIdsDiffer(p) ==
  /\ OnlyDiffIn(args[p][1], disk.args_json[1], {"device_ids"})
  /\ args[p][1].device_ids # disk.args_json[1].device_ids

\* What C6 says the decision is.
DeviceIdsRule(p) ==
  IF Len(args[p][1].device_ids) = Len(disk.args_json[1].device_ids)
  THEN decision[p] = "Resume"
  ELSE decision[p] = "AbortIncompatible" /\ arg_diffs[p] = {"device_ids"}

\* C6: requests that differ in the device-id list only: Resume when the
\* lists are equally long, else AbortIncompatible naming device_ids.
C6_DeviceIdsRule ==
  \A p \in Procs : (Decided(p) /\ OnlyDeviceIdsDiffer(p)) => DeviceIdsRule(p)

\* C6 as amended: the same, when the folder holds the training state and
\* the current request does not ask for overwrite.
C6_DeviceIdsRuleOnResumeCheck ==
  \A p \in Procs :
    (Decided(p) /\ OnlyDeviceIdsDiffer(p)
       /\ disk.training_state /\ ~args[p][1].overwrite_output)
      => DeviceIdsRule(p)

\* A resume on other devices, as many as before.
C6_Witness ==
  \E p \in Procs :
    /\ Decided(p) /\ OnlyDeviceIdsDiffer(p)
    /\ disk.training_state /\ ~args[p][1].overwrite_output
    /\ Len(args[p][1].device_ids) = Len(disk.args_json[1].device_ids)
    /\ decision[p] = "Resume"

\* C7: requests that differ in resumption-neutral fields only, at a folder
\* with the training state: Resume.
C7_NeutralFieldsResume ==
  \A p \in Procs :
    (Decided(p) /\ disk.training_state
       /\ OnlyDiffIn(args[p][1], disk.args_json[1], ARGS_MAY_DIFFER))
      => decision[p] = "Resume"

\* C7 as amended: the same, when the current request does not ask for
\* overwrite.
C7_NeutralFieldsResumeNoOverwrite ==
  \A p \in Procs :
    (Decided(p) /\ disk.training_state /\ ~args[p][1].overwrite_output
       /\ OnlyDiffIn(args[p][1], disk.args_json[1], ARGS_MAY_DIFFER))
      => decision[p] = "Resume"

\* A resume where one neutral field changed and another one is in the old
\* dict only.
C7_Witness ==
  \E p \in Procs :
    /\ Decided(p) /\ decision[p] = "Resume"
    /\ args[p][1].quiet # disk.args_json[1].quiet
    /\ "keep_last_params" \in DOMAIN disk.args_json[1]
    /\ "keep_last_params" \notin DOMAIN args[p][1]

\* C8: an invocation at the training-state check (it found the folder and
\* does not ask for overwrite) that finds no training state refuses: it goes
\* to sys.exit(1) and leaves the folder as it is.
C8_RefuseWithoutMarker ==
  [][\A p \in Procs :
       (pc[p] = "check_training_state" /\ Steps(p) /\ ~disk.training_state)
         => /\ ~args[p][1].overwrite_output
            /\ decision'[p] = "Refuse"
            /\ pc'[p] = "sys_exit" /\ status'[p] = "fatal"
            /\ disk' = disk]_vars

\* A refusal at a folder that holds files but no training state.
C8_Witness ==
  \E p \in Procs :
    /\ decision[p] = "Refuse" /\ pc[p] = "sys_exit" /\ status[p] = "fatal"
    /\ disk.folder /\ disk.args_json # <<>> /\ ~disk.training_state

\* C9: a step that changes the output folder is a step of an invocation
\* that had decided FreshStart or Resume, and such a decision is never
\* replaced; so an invocation that decides Refuse or AbortIncompatible has
\* changed nothing.
C9_FatalDecisionWritesNothing ==
  [][\A p \in Procs :
       /\ (pc'[p] # pc[p] /\ disk' # disk) => decision[p] \in Proceeds
       /\ decision[p] \in Proceeds
            => (decision'[p] = decision[p] \/ pc'[p] = "idle")]_vars

\* A mismatch was found at a folder of an earlier run.
C9_Witness ==
  \E p \in Procs :
    /\ decision[p] = "AbortIncompatible" /\ pc[p] = "sys_exit"
    /\ disk.args_json # <<>> /\ disk.args_json[1] # JsonDump(args[p][1])
    /\ disk.log /\ disk.vocab /\ disk.training_state

\* C10: an invocation is in the with-block, has completed a pipeline step,
\* runs on a device or holds a lock only if it decided FreshStart or Resume;
\* one that decided Refuse or AbortIncompatible is at sys.exit(1).
C10_PipelineOnlyAfterProceed ==
  \A p \in Procs :
    /\ (pc[p] \in InWithBlock \/ did[p] # <<>> \/ HoldsLock(p)
          \/ (Running(p) /\ context[p] # {}))
         => decision[p] \in Proceeds
    /\ decision[p] \in Fatal => pc[p] = "sys_exit"

\* One invocation is in the training loop while another has been refused or
\* found incompatible.
C10_Witness ==
  \E p, q \in Procs :
    /\ decision[p] \in Fatal /\ pc[p] = "sys_exit"
    /\ did[q] # <<>> /\ pc[q] \in {"fit_mkdir", "fit_save"}
    /\ decision[q] \in Proceeds

\* Something that was in the output folder is gone after the step.
Destroyed ==
  \/ disk.folder /\ ~disk'.folder
  \/ disk.args_json # <<>> /\ disk'.args_json = <<>>
  \/ \E f \in {"log", "vocab", "training_state", "scheduler_state", "params"} :
       disk[f] /\ ~disk'[f]

\* C11: only the rmtree of an invocation with the overwrite flag removes
\* anything from the output folder; an invocation with the flag that finds
\* the folder decides FreshStart, whether or not the folder holds a training
\* state, clears the folder, creates it again and goes on to the logger.
C11_OverwriteOnlyWithFlag ==
  [][\A p \in Procs :
       Steps(p) =>
         /\ Destroyed => (pc[p] = "rmtree" /\ args[p][1].overwrite_output)
         /\ (pc[p] = "check_output" /\ disk.folder /\ args[p][1].overwrite_output)
              => (decision'[p] = "FreshStart" /\ pc'[p] = "rmtree")
         /\ pc[p] = "rmtree"
              => (disk' = EmptyDisk /\ pc'[p] = "makedirs_overwrite")
         /\ pc[p] = "makedirs_overwrite"
              => (disk'.folder /\ pc'[p] = "setup_logger"
                    /\ decision'[p] = "FreshStart")]_vars

\* An invocation with the overwrite flag has cleared a folder and runs as a
\* fresh start in the new one, after another invocation completed a training
\* loop at that path.
C11_Witness ==
  \E p, q \in Procs :
    /\ p # q /\ pc[q] = "idle" /\ status[q] = "ok"
    /\ pc[p] = "setup_logger" /\ decision[p] = "FreshStart"
    /\ args[p][1].overwrite_output
    /\ disk.folder /\ ~disk.training_state /\ disk.args_json = <<>>

\* C12: a resuming invocation that comes to the scheduler and finds no
\* scheduler state under the training state raises: no scheduler is set up,
\* the with-block is left with an error, and from there the invocation only
\* ends; fit() is not called.
C12_MissingSchedulerStateHalts ==
  [][\A p \in Procs :
       /\ (pc[p] = "lr_scheduler" /\ Steps(p) /\ decision[p] = "Resume"
             /\ disk.training_state /\ ~disk.scheduler_state)
            => /\ pc'[p] = "exit_stack" /\ status'[p] = "error"
               /\ did'[p] = did[p]
               /\ "scheduler" \notin Range(did'[p])
               /\ "fit" \notin Range(did'[p])
       /\ (pc[p] = "exit_stack" /\ pc'[p] # pc[p])
            => (pc'[p] = "idle" /\ status'[p] \in {status[p], "killed"})]_vars

\* A resuming invocation has raised at the scheduler: the folder holds the
\* training state without a scheduler state.
C12_Witness ==
  \E p \in Procs :
    /\ pc[p] = "exit_stack" /\ status[p] = "error" /\ decision[p] = "Resume"
    /\ did[p] = <<"decision", "devices", "vocab", "data">>
    /\ disk.training_state /\ ~disk.scheduler_state

\* The invocation has run the check_condition calls and still has its args.
Validated(p) == args[p] # <<>> /\ pc[p] \in {"uncaught", "check_output"}

\* One of the two checks that do not look at the depth fails.
OtherCheckFails(a) ==
  \/ a.use_fused_rnn /\ a.use_cpu
  \/ ~(a.optimized_metric = BLEU \/ a.optimized_metric \in Range(a.metrics))

\* C13: with residual connections and at most 2 layers the validation
\* raises; with residual connections and 3 layers or more, and without
\* residual connections at any depth, it raises only when one of the other
\* two checks fails.
C13_ResidualDepthCheck ==
  \A p \in Procs :
    Validated(p) =>
      LET a == args[p][1] IN
        IF a.rnn_residual_connections /\ a.rnn_num_layers <= 2
        THEN pc[p] = "uncaught" /\ status[p] = "error"
        ELSE pc[p] = "uncaught" <=> OtherCheckFails(a)

\* Residual connections with 2 layers, nothing else wrong: rejected.
C13_Witness ==
  \E p \in Procs :
    /\ Validated(p) /\ pc[p] = "uncaught"
    /\ args[p][1].rnn_residual_connections /\ args[p][1].rnn_num_layers = 2
    /\ ~OtherCheckFails(args[p][1])

\* Residual connections with 3 layers pass the validation.
C13_WitnessPasses ==
  \E p \in Procs :
    /\ Validated(p) /\ pc[p] = "check_output"
    /\ args[p][1].rnn_residual_connections /\ args[p][1].rnn_num_layers = 3

\* The pcs of the output-folder check, lines 98-125.
DecisionPcs ==
  {"check_output", "rmtree", "makedirs_overwrite", "makedirs",
   "check_training_state", "compare_args"}

\* C14: a step of the output-folder check only reads the folder, and the
\* check never ends in an exception: it goes on inside the check or ends
\* with one of the four decisions.
C14_OneDecisionOnlyReads ==
  [][\A p \in Procs :
       (pc[p] \in DecisionPcs /\ Steps(p))
         => /\ disk' = disk
            /\ pc'[p] # "uncaught"
            /\ pc'[p] \notin DecisionPcs
                 => decision'[p] \in Proceeds \cup Fatal]_vars

\* s is an initial part of t.
IsPrefix(s, t) == Len(s) <= Len(t) /\ \A i \in 1..Len(s) : s[i] = t[i]

\* The steps C15 speaks of, in the order it gives and in the order of main().
ClaimedOrder == <<"decision", "devices", "vocab", "config", "scheduler", "fit">>
CodeOrder == <<"decision", "devices", "vocab", "scheduler", "config", "fit">>

InOrder(e) == e \in Range(CodeOrder)

\* The steps of C15 that p has completed, in the order it completed them.
StepsDone(p) == SelectSeq(did[p], InOrder)

InFit(p) == pc[p] \in {"fit_mkdir", "fit_save"}

\* C15: the steps an invocation has completed are an initial part of:
\* decision, devices, vocabularies, configuration, scheduler, fit; an
\* invocation in the training loop has completed all of them.
C15_StepsInClaimedOrder ==
  \A p \in Procs :
    /\ IsPrefix(StepsDone(p), ClaimedOrder)
    /\ InFit(p) => StepsDone(p) = ClaimedOrder

\* C15 as amended: the same with the scheduler before the configuration.
C15_StepsInCodeOrder ==
  \A p \in Procs :
    /\ IsPrefix(StepsDone(p), CodeOrder)
    /\ InFit(p) => StepsDone(p) = CodeOrder

\* A resuming invocation is in the training loop.
C15_Witness ==
  \E p \in Procs :
    InFit(p) /\ decision[p] = "Resume" /\ StepsDone(p) = CodeOrder

\* The request of invocation p fails the cross-field validation.
Invalid(p) == args[p] # <<>> /\ ~ValidArgs(args[p][1])

\* C16: an invocation whose request fails the validation is at the
\* validation or on its way out with the exception: it has taken no
\* decision, holds no lock, runs on no device, and whatever it does leaves
\* the output folder and the locks as they are; it ends with an error.
C16_InvalidCommitsNothing ==
  [][\A p \in Procs :
       Invalid(p) =>
         /\ pc[p] \in {"validate", "uncaught"}
         /\ decision[p] = "none" /\ did[p] = <<>>
         /\ ~HoldsLock(p) /\ context[p] = {}
         /\ pc'[p] # pc[p]
              => /\ disk' = disk /\ locks' = locks
                 /\ pc'[p] \in {"uncaught", "idle"}
                 /\ status'[p] \in {"error", "killed"}]_vars

\* A request with the overwrite flag is rejected by the validation at a
\* folder that holds a run: the folder is still there.
C16_Witness ==
  \E p \in Procs :
    /\ Invalid(p) /\ pc[p] = "uncaught" /\ status[p] = "error"
    /\ args[p][1].overwrite_output
    /\ disk.folder /\ disk.args_json # <<>> /\ disk.training_state

\* The outcome of lines 100-125 for request a at a folder in state d.
ResumeDecision(d, a) ==
  IF ~d.folder \/ a.overwrite_output THEN "FreshStart"
  ELSE IF ~d.training_state THEN "Refuse"
  ELSE IF d.args_json = <<>> \/ ~JsonValid(d.args_json[1]) THEN "Exception"
  ELSE IF ArgDiffs(a, JsonLoad(d.args_json[1])) = {} THEN "Resume"
  ELSE "AbortIncompatible"

\* Invocation p is killed in this step.
Killed(p) == pc[p] # "idle" /\ pc'[p] = "idle" /\ status'[p] = "killed"

\* C17: when an invocation that decided Resume is killed, the folder it
\* leaves is one at which its request decides Resume again.
C17_KilledResumeResumes ==
  [][\A p \in Procs :
       (decision[p] = "Resume" /\ Killed(p))
         => ResumeDecision(disk', args[p][1]) = "Resume"]_vars

Orphan ==
  /\ disk.folder /\ ~disk.training_state
  /\ \A q \in Procs : decision[q] \notin Proceeds

NoOverwriteRunning ==
  \A q \in Procs : Running(q) => ~args[q][1].overwrite_output

\* C19: at a folder left without training state, as long as no invocation
\* carries the overwrite flag, the folder stays as it is, no invocation
\* decides FreshStart or Resume, and every invocation that comes to the
\* training-state check decides Refuse.
C19_OrphanFolderRefuses ==
  [][(Orphan /\ NoOverwriteRunning)
       => /\ Orphan'
          /\ disk' = disk
          /\ \A p \in Procs :
               /\ decision'[p] # decision[p]
                    => decision'[p] \in {"none", "Refuse"}
               /\ (Steps(p) /\ pc[p] = "check_output")
                    => pc'[p] = "check_training_state"
               /\ (Steps(p) /\ pc[p] = "check_training_state")
                    => (decision'[p] = "Refuse" /\ pc'[p] = "sys_exit")]_vars

\* A fresh start wrote its snapshot and was killed or failed before the
\* training loop; a later invocation with another request is refused.
C19_Witness ==
  \E p, q \in Procs :
    /\ p # q /\ pc[q] = "idle" /\ status[q] \in {"killed", "error"}
    /\ Orphan /\ disk.args_json # <<>> /\ JsonValid(disk.args_json[1])
    /\ decision[p] = "Refuse" /\ pc[p] = "sys_exit"
    /\ JsonDump(args[p][1]) # disk.args_json[1]

\* Neither of the two command lines carries the overwrite flag.
NoOverwriteRequested == \A r \in requests : ~r.overwrite_output

\* C20: of two invocations without the overwrite flag started together at
\* an absent folder, the one that comes to write args.json finds none (the
\* other has not come that far), and an invocation that ends without
\* having written it ends with an error.
C20_AtMostOneWritesArgs ==
  [][NoOverwriteRequested =>
       \A p \in Procs :
         /\ (pc[p] = "write_args" /\ Steps(p)) => disk.args_json = <<>>
         /\ (Running(p) /\ pc'[p] = "idle" /\ did[p] = <<>>)
              => status'[p] \in {"error", "fatal", "killed"}]_vars

====
